---- MODULE Spec2Model ----
(***************************************************************************)
(* busybox shuf (coreutils/shuf.c): the line source (-e arguments, -i      *)
(* range, or a stream), the partial Fisher-Yates shuffle of shuffle_lines, *)
(* and the output loop of shuf_main.                                       *)
(*                                                                         *)
(* Word widths are scaled so that TLC can enumerate them: unsigned has     *)
(* UintBits bits, unsigned long long one bit more, int one bit less, and   *)
(* the shift of the second rand() is ShiftBits (15 in the source, with the *)
(* smallest RAND_MAX being 2^15 - 1).  All arithmetic wraps at the scaled  *)
(* width exactly where the C arithmetic wraps at the real one.             *)
(*                                                                         *)
(* The seed (srand(monotonic_us())) is not modelled: every value of rand()  *)
(* is possible at every call.                                              *)
(*                                                                         *)
(* Bytes are one-character strings; "NL" stands for '\n' and "NUL" for     *)
(* '\0'.  A C string is a sequence of bytes without its final NUL.         *)
(***************************************************************************)
EXTENDS Integers, Sequences, FiniteSets, TLC

\* ------------------------------------------------------------ bounds
UintBits == 5
ShiftBits == 2
MaxArgs == 2

\* ------------------------------------------------------- arithmetic
Pow2(k) == 2 ^ k

UllBits == UintBits + 1
UINT_MAX == Pow2(UintBits) - 1
INT_MAX == Pow2(UintBits - 1) - 1
ULLONG_MAX == Pow2(UllBits) - 1

Min(a, b) == IF a < b THEN a ELSE b

\* The builds: 32-bit or 64-bit pointers and size_t; a rand() of 15 bits
\* (the Windows C runtime) or of a full non-negative int.
Platforms == {"mingw32", "mingw64", "linux32", "linux64"}
Is64(p) == p \in {"mingw64", "linux64"}
SizeofUnsigned == 4
SizeofSizeT(p) == IF Is64(p) THEN 8 ELSE 4
SizeofPtr(p) == IF Is64(p) THEN 8 ELSE 4
RandBits(p) == IF p \in {"linux32", "linux64"} THEN UintBits - 1 ELSE ShiftBits
RAND_MAX(p) == Pow2(RandBits(p)) - 1

RECURSIVE BitXor(_, _)
BitXor(a, b) ==
    IF a = 0 /\ b = 0 THEN 0
    ELSE (((a % 2) + (b % 2)) % 2) + 2 * BitXor(a \div 2, b \div 2)

\* Faulty variant: the second draw is not shifted.
CombinedDrawNoShift(p, n, d1, d2) ==
    IF n > RAND_MAX(p) THEN BitXor(d1, d2) ELSE d1

\* r = rand(); if (numlines > RAND_MAX) r ^= rand() << 15; r %= numlines;
\* d1 and d2 are the values of the two rand() calls.  On the build whose
\* RAND_MAX is INT_MAX the shift leaves the range of int; the compilers
\* busybox is built with produce the wrapped value, which the conversion to
\* unsigned then reduces modulo 2^UintBits.
CombinedDraw(p, n, d1, d2) ==
    IF n > RAND_MAX(p)
    THEN BitXor(d1, (d2 * Pow2(ShiftBits)) % Pow2(UintBits))
    ELSE d1

RandIndex(p, n, d1, d2) == CombinedDraw(p, n, d1, d2) % n

\* The values rand() can return for the second call: it is made only when
\* numlines > RAND_MAX.
SecondDraws(p, n) == IF n > RAND_MAX(p) THEN 0 .. RAND_MAX(p) ELSE {0}
RandCalls(p, n) == IF n > RAND_MAX(p) THEN 2 ELSE 1

\* ------------------------------------------------------------ text
NL == "NL"
NUL == "NUL"
Digits == <<"0", "1", "2", "3", "4", "5", "6", "7", "8", "9">>

IsDigit(c) == \E k \in 1 .. 10 : Digits[k] = c
DigitVal(c) == (CHOOSE k \in 1 .. 10 : Digits[k] = c) - 1

\* printf("%llu") / ("%u"): the decimal digits of v, most significant first.
RECURSIVE Decimal(_)
Decimal(v) ==
    IF v < 10 THEN <<Digits[v + 1]>>
    ELSE Append(Decimal(v \div 10), Digits[(v % 10) + 1])

\* xatoull / xatou: the value of a string of decimal digits; -1 (the call
\* dies with "invalid number") for an empty string, a byte that is no
\* digit, or a value above max.
RECURSIVE ParseFrom(_, _, _)
ParseFrom(s, acc, max) ==
    IF s = <<>> THEN acc
    ELSE IF ~IsDigit(Head(s)) THEN -1
    ELSE LET v == 10 * acc + DigitVal(Head(s))
         IN  IF v > max THEN -1 ELSE ParseFrom(Tail(s), v, max)

ParseNum(s, max) == IF s = <<>> THEN -1 ELSE ParseFrom(s, 0, max)

\* strchr(s, c): the index of the first c in s, 0 when there is none.
StrChr(s, c) ==
    IF \E k \in 1 .. Len(s) : s[k] = c
    THEN CHOOSE k \in 1 .. Len(s) : s[k] = c /\ \A j \in 1 .. k - 1 : s[j] # c
    ELSE 0

\* The loop over xmalloc_fgetline: the stream cut at every newline, the
\* newline stripped; bytes after the last newline make a final line.
RECURSIVE SplitFrom(_, _, _)
SplitFrom(b, cur, acc) ==
    IF b = <<>> THEN (IF cur = <<>> THEN acc ELSE Append(acc, cur))
    ELSE IF Head(b) = NL THEN SplitFrom(Tail(b), <<>>, Append(acc, cur))
    ELSE SplitFrom(Tail(b), Append(cur, Head(b)), acc)

FGetLines(bytes) == SplitFrom(bytes, <<>>, <<>>)

RECURSIVE Flatten(_)
Flatten(recs) == IF recs = <<>> THEN <<>> ELSE Head(recs) \o Flatten(Tail(recs))

\* ---------------------------------------------------------- inputs
Words == {<<"a">>, <<"-">>, <<"a", NL>>}
ArgVectors == UNION {[1 .. k -> Words] : k \in 0 .. MaxArgs}

FileNames == {<<"a">>, <<"b">>}
NoFile == [exists |-> FALSE, data |-> <<>>]
File(d) == [exists |-> TRUE, data |-> d]

\* The environment of a run: what standard input holds and the files.  One
\* with an empty standard input and no file "a"; one whose file "a" holds
\* four lines, two of them equal, one empty, the last unterminated.
Envs ==
    { [stdin |-> <<>>,
       fs |-> (<<"a">> :> NoFile) @@ (<<"b">> :> File(<<"b">>))],
      [stdin |-> <<"a", NL, "b", NL>>,
       fs |-> (<<"a">> :> File(<<"a", NL, "a", NL, NL, "b">>))
              @@ (<<"b">> :> NoFile)] }

RangeText(l, h) == Decimal(l) \o <<"-">> \o Decimal(h)
RangeArgs ==
    { RangeText(5, 9), RangeText(3, 3), RangeText(9, 5),
      RangeText(ULLONG_MAX - 1, ULLONG_MAX),
      RangeText(0, ULLONG_MAX), <<"5", "9">>, <<"-", "5">> }

CountArgs == { <<"0">>, <<"2">>, Decimal(UINT_MAX), <<"x">> }

\* ----------------------------------------------------------- state
VARIABLES
    platform,     \* the build
    opts,         \* getopt32's result: the option letters given
    opt_i_str,    \* the argument of -i
    opt_n_str,    \* the argument of -n
    opt_o_str,    \* the argument of -o
    argv,         \* the operands left after the options
    stdin,        \* the bytes standard input holds
    fs,           \* the files: name -> [exists, data]
    pc,           \* the position in shuf_main
    err,          \* the diagnostic of a fatal error, "none" otherwise
    exit_status,  \* the exit status, -1 while running
    lines,        \* the array of handles (0-based in C, 1-based here)
    text,         \* the string each text handle points to
    numlines,     \* shuf_main's numlines
    outlines,     \* shuf_main's outlines
    lo,           \* the lower bound of the range
    sh_numlines,  \* shuffle_lines' parameter numlines (the active length)
    sh_outlines,  \* shuffle_lines' parameter outlines (iterations left)
    draws,        \* the index r of each iteration so far
    nrand,        \* the number of calls of rand() so far
    fp,           \* the input stream: "unopened", "closed", "stdin_eof"
    out_fd,       \* what file descriptor 1 is: <<"stdout">> or a file name
    eol,          \* the terminator
    i,            \* the index of the output loop
    out           \* the records written to stdout, in order

vars ==
    <<platform, opts, opt_i_str, opt_n_str, opt_o_str, argv, stdin, fs, pc,
      err, exit_status, lines, text, numlines, outlines, lo, sh_numlines,
      sh_outlines, draws, nrand, fp, out_fd, eol, i, out>>

cmdline == <<platform, opts, opt_i_str, opt_n_str, opt_o_str, argv, stdin>>
collection == <<lines, text, numlines, lo, fp>>
shuffle == <<sh_numlines, sh_outlines, draws, nrand>>
output == <<out_fd, eol, i, out>>

Stdout == <<"stdout">>

\* The state shuf_main starts in, apart from the command line and the
\* environment.
Fresh ==
    /\ err = "none"
    /\ exit_status = -1
    /\ lines = <<>>
    /\ text = <<>>
    /\ numlines = 0
    /\ outlines = 0
    /\ lo = 0
    /\ sh_numlines = 0
    /\ sh_outlines = 0
    /\ draws = <<>>
    /\ nrand = 0
    /\ fp = "unopened"
    /\ out_fd = Stdout
    /\ eol = NL
    /\ i = 0
    /\ out = <<>>

Init ==
    /\ platform \in Platforms
    /\ opts \in SUBSET {"e", "i", "n", "o", "z"}
    /\ opt_i_str \in (IF "i" \in opts THEN RangeArgs ELSE {<<>>})
    /\ opt_n_str \in (IF "n" \in opts THEN CountArgs ELSE {<<>>})
    /\ opt_o_str \in (IF "o" \in opts THEN FileNames ELSE {<<>>})
    /\ argv \in ArgVectors
    /\ \E env \in Envs : stdin = env.stdin /\ fs = env.fs
    /\ pc = "getopt"
    /\ Fresh

\* bb_show_usage, bb_error_msg_and_die and the x-functions: the diagnostic
\* goes to stderr and the process exits with status 1.
Die(msg) ==
    /\ pc' = "error"
    /\ err' = msg
    /\ exit_status' = 1

\* ------------------------------------------------------ operations
\* Faulty variant: the exclusion of -e and -i is left out of the option string.
ConflictIgnored(o) == FALSE

\* getopt32's "e--i:i--e": -e and -i exclude each other.
Conflict(o) == "e" \in o /\ "i" \in o

\* getopt32: the usage message when the options conflict.
ParseOptions ==
    /\ pc = "getopt"
    /\ IF Conflict(opts)
       THEN Die("usage")
       ELSE pc' = "source" /\ UNCHANGED <<err, exit_status>>
    /\ UNCHANGED <<cmdline, fs, collection, outlines, shuffle, output>>

\* -e: the operands are the lines.
BuildArgs ==
    /\ pc = "source"
    /\ "e" \in opts
    /\ numlines' = Len(argv)
    /\ lines' = [k \in 1 .. Len(argv) |-> k - 1]
    /\ text' = argv
    /\ pc' = "count"
    /\ UNCHANGED <<cmdline, fs, err, exit_status, lo, fp, outlines, shuffle,
                   output>>

\* Faulty variant: the size guard compares with > in place of >=.
RangeTooBigOffByOne(p, d) ==
    IF SizeofSizeT(p) > SizeofUnsigned
    THEN d > UINT_MAX
    ELSE d > UINT_MAX \div SizeofPtr(p)

\* if (sizeof(size_t) > sizeof(numlines)) hi >= UINT_MAX
\* else hi >= UINT_MAX / sizeof(lines[0]): TRUE when the range is refused.
RangeTooBig(p, d) ==
    IF SizeofSizeT(p) > SizeofUnsigned
    THEN d >= UINT_MAX
    ELSE d >= UINT_MAX \div SizeofPtr(p)

\* The -i branch up to numlines = hi + 1: the diagnostic ("none" when the
\* range is accepted), lo, and numlines.
ParseRange(p, s, operands) ==
    LET dash == StrChr(s, "-")
        l == ParseNum(SubSeq(s, 1, dash - 1), ULLONG_MAX)
        h == ParseNum(SubSeq(s, dash + 1, Len(s)), ULLONG_MAX)
        d == (h - l) % Pow2(UllBits)
        bad(m) == [err |-> m, lo |-> 0, numlines |-> 0]
    IN  IF operands # <<>> THEN bad("usage")
        ELSE IF dash = 0 THEN bad("bad range")
        ELSE IF l = -1 \/ h = -1 THEN bad("invalid number")
        ELSE IF h < l THEN bad("bad range")
        ELSE IF RangeTooBig(p, d) THEN bad("bad range")
        ELSE [err |-> "none", lo |-> l, numlines |-> (d + 1) % Pow2(UintBits)]

\* -i L-H: the handles are the integers 0 .. H-L.
BuildRange ==
    /\ pc = "source"
    /\ "e" \notin opts
    /\ "i" \in opts
    /\ LET r == ParseRange(platform, opt_i_str, argv)
       IN  IF r.err # "none"
           THEN Die(r.err) /\ UNCHANGED <<lo, numlines, lines>>
           ELSE /\ lo' = r.lo
                /\ numlines' = r.numlines
                /\ lines' = [k \in 1 .. r.numlines |-> k - 1]
                /\ pc' = "count"
                /\ UNCHANGED <<err, exit_status>>
    /\ UNCHANGED <<cmdline, fs, text, fp, outlines, shuffle, output>>

\* xfopen_stdin: "-" is standard input, any other name a file to open.
InputIsStdin == argv = <<>> \/ argv[1] = <<"-">>
InputOpens == InputIsStdin \/ (argv[1] \in DOMAIN fs /\ fs[argv[1]].exists)
InputBytes == IF InputIsStdin THEN stdin ELSE fs[argv[1]].data

\* fclose_if_not_stdin(fp) at end of input: standard input stays open.
FcloseIfNotStdin(isStdin) == IF isStdin THEN "stdin_eof" ELSE "closed"

\* Neither -e nor -i: the lines of standard input or of the one file.
BuildStream ==
    /\ pc = "source"
    /\ "e" \notin opts
    /\ "i" \notin opts
    /\ IF Len(argv) > 1
       THEN Die("usage") /\ UNCHANGED <<lines, text, numlines, fp>>
       ELSE IF ~InputOpens
       THEN Die("can't open") /\ UNCHANGED <<lines, text, numlines, fp>>
       ELSE /\ text' = FGetLines(InputBytes)
            /\ numlines' = Len(text')
            /\ lines' = [k \in 1 .. Len(text') |-> k - 1]
            /\ fp' = FcloseIfNotStdin(InputIsStdin)
            /\ pc' = "count"
            /\ UNCHANGED <<err, exit_status>>
    /\ UNCHANGED <<cmdline, fs, lo, outlines, shuffle, output>>

\* Faulty variant: -n NUM is not clamped.
ClampMissing(o, n) == o

\* if (outlines > numlines) outlines = numlines;
Clamp(o, n) == IF o > n THEN n ELSE o

\* outlines = numlines; with -n, xatou(opt_n_str) clamped to numlines.  Then
\* the call of shuffle_lines binds its parameters.
SetOutlines ==
    /\ pc = "count"
    /\ LET num == ParseNum(opt_n_str, UINT_MAX)
       IN  IF "n" \in opts /\ num = -1
           THEN Die("invalid number") /\ UNCHANGED <<outlines, sh_numlines, sh_outlines>>
           ELSE /\ outlines' = IF "n" \in opts THEN Clamp(num, numlines) ELSE numlines
                /\ sh_numlines' = numlines
                /\ sh_outlines' = outlines'
                /\ pc' = "shuffle"
                /\ UNCHANGED <<err, exit_status>>
    /\ UNCHANGED <<cmdline, fs, collection, draws, nrand, output>>

\* Faulty variant: the swap without tmp, lines[r] keeps its handle.
SwapNoTmp(l, n, r) == [l EXCEPT ![n + 1] = l[r + 1]]

\* Faulty variant: the swap with the first slot in place of the last active one.
SwapFront(l, n, r) == [l EXCEPT ![1] = l[r + 1], ![r + 1] = l[1]]

\* numlines--; tmp = lines[numlines]; lines[numlines] = lines[r];
\* lines[r] = tmp; with n the decremented numlines (0-based indices).
Swap(l, n, r) == [l EXCEPT ![n + 1] = l[r + 1], ![r + 1] = l[n + 1]]

\* Faulty variant: the loop stops one iteration early.
LoopOffByOne(o) == o > 1

\* while (outlines != 0)
LoopContinues(o) == o # 0

\* One iteration of the loop.  r %= numlines with numlines == 0 is a division
\* by zero, which ends the process.
ShuffleStep ==
    /\ pc = "shuffle"
    /\ LoopContinues(sh_outlines)
    /\ IF sh_numlines = 0
       THEN /\ Die("division by zero")
            /\ UNCHANGED <<lines, shuffle>>
       ELSE /\ \E d1 \in 0 .. RAND_MAX(platform),
                  d2 \in SecondDraws(platform, sh_numlines) :
                 LET r == RandIndex(platform, sh_numlines, d1, d2)
                 IN  /\ lines' = Swap(lines, sh_numlines - 1, r)
                     /\ draws' = Append(draws, r)
            /\ nrand' = nrand + RandCalls(platform, sh_numlines)
            /\ sh_numlines' = sh_numlines - 1
            /\ sh_outlines' = (sh_outlines - 1) % Pow2(UintBits)
            /\ UNCHANGED <<pc, err, exit_status>>
    /\ UNCHANGED <<cmdline, fs, text, numlines, lo, fp, outlines, output>>

\* The loop ends and shuffle_lines returns.
ShuffleReturn ==
    /\ pc = "shuffle"
    /\ ~LoopContinues(sh_outlines)
    /\ pc' = "open"
    /\ UNCHANGED <<cmdline, fs, err, exit_status, collection, outlines,
                   shuffle, output>>

\* Faulty variant: -z is ignored.
EolIgnoresZ(o) == NL

\* eol = '\n'; if (opts & OPT_z) eol = '\0';
Eol(o) == IF "z" \in o THEN NUL ELSE NL

\* Faulty variant: the open without O_TRUNC.
OpenNoTrunc(files, name) ==
    [files EXCEPT ![name] = IF @.exists THEN @ ELSE File(<<>>)]

\* xopen(opt_o_str, O_WRONLY|O_CREAT|O_TRUNC): the file exists and is empty.
OpenTrunc(files, name) == [files EXCEPT ![name] = File(<<>>)]

\* With -o, xopen(O_WRONLY|O_CREAT|O_TRUNC) and xmove_fd to fd 1; the open
\* may fail.  Then eol is chosen and the output loop initialised.
OpenOutput ==
    /\ pc = "open"
    /\ \E ok \in BOOLEAN :
         IF "o" \in opts /\ ~ok
         THEN Die("can't open") /\ UNCHANGED <<fs, output>>
         ELSE /\ ok
              /\ fs' = IF "o" \in opts THEN OpenTrunc(fs, opt_o_str) ELSE fs
              /\ out_fd' = IF "o" \in opts THEN opt_o_str ELSE Stdout
              /\ eol' = Eol(opts)
              /\ i' = numlines - outlines
              /\ pc' = "print"
              /\ UNCHANGED <<err, exit_status, out>>
    /\ UNCHANGED <<cmdline, collection, outlines, shuffle>>

\* Faulty variant: lo + lines[i] computed in unsigned, not unsigned long long.
RenderTruncated(h) ==
    IF "i" \in opts
    THEN Append(Decimal((lo + h) % Pow2(UintBits)), eol)
    ELSE Append(text[h + 1], eol)

\* printf("%llu%c", lo + lines[i], eol) or printf("%s%c", lines[i], eol).
Render(h) ==
    IF "i" \in opts
    THEN Append(Decimal((lo + h) % Pow2(UllBits)), eol)
    ELSE Append(text[h + 1], eol)

\* One iteration of the output loop.
PrintLine ==
    /\ pc = "print"
    /\ i < numlines
    /\ out' = Append(out, Render(lines[i + 1]))
    /\ i' = i + 1
    /\ UNCHANGED <<cmdline, fs, pc, err, exit_status, collection, outlines,
                   shuffle, out_fd, eol>>

\* fflush_stdout_and_exit(EXIT_SUCCESS): the records reach fd 1.
Exit ==
    /\ pc = "print"
    /\ i >= numlines
    /\ fs' = IF out_fd = Stdout THEN fs
             ELSE [fs EXCEPT ![out_fd] = File(Flatten(out))]
    /\ pc' = "done"
    /\ exit_status' = 0
    /\ UNCHANGED <<cmdline, err, collection, outlines, shuffle, output>>

Next ==
    \/ ParseOptions
    \/ BuildArgs
    \/ BuildRange
    \/ BuildStream
    \/ SetOutlines
    \/ ShuffleStep
    \/ ShuffleReturn
    \/ OpenOutput
    \/ PrintLine
    \/ Exit

Spec == Init /\ [][Next]_vars

\* The -i branch alone, over every pair of endpoints the scaled unsigned
\* long long holds (and one past it), malformed arguments, and an operand.
AllRangeArgs ==
    {RangeText(l, h) : l, h \in 0 .. ULLONG_MAX + 1}
        \cup {Decimal(l) : l \in 0 .. ULLONG_MAX}
        \cup {<<"-">>, <<"-", "5">>, <<"5", "-">>, <<"1", "-", "2", "-", "3">>}

InitRange ==
    /\ platform \in Platforms
    /\ opts = {"i"}
    /\ opt_i_str \in AllRangeArgs
    /\ opt_n_str = <<>>
    /\ opt_o_str = <<>>
    /\ argv \in {<<>>, <<<<"a">>>>}
    /\ stdin = <<>>
    /\ fs = [f \in FileNames |-> NoFile]
    /\ pc = "source"
    /\ Fresh

NextRange == BuildRange

SpecRange == InitRange /\ [][NextRange]_vars

\* One iteration of the shuffle for every active length an unsigned holds:
\* shuf -n 1 on a stream of n empty lines, at the entry of shuffle_lines.
InitDraw ==
    /\ platform \in Platforms
    /\ opts = {"n"}
    /\ opt_i_str = <<>>
    /\ opt_n_str = <<"1">>
    /\ opt_o_str = <<>>
    /\ argv = <<>>
    /\ \E n \in 1 .. UINT_MAX :
         /\ stdin = [k \in 1 .. n |-> NL]
         /\ text = [k \in 1 .. n |-> <<>>]
         /\ lines = [k \in 1 .. n |-> k - 1]
         /\ numlines = n
         /\ sh_numlines = n
    /\ fs = [f \in FileNames |-> NoFile]
    /\ pc = "shuffle"
    /\ err = "none"
    /\ exit_status = -1
    /\ outlines = 1
    /\ sh_outlines = 1
    /\ lo = 0
    /\ draws = <<>>
    /\ nrand = 0
    /\ fp = "stdin_eof"
    /\ out_fd = Stdout
    /\ eol = NL
    /\ i = 0
    /\ out = <<>>

NextDraw == ShuffleStep

SpecDraw == InitDraw /\ [][NextDraw]_vars

\* ------------------------------------------------------------------
\* Vocabulary of the properties, in terms of the command line.
\* ------------------------------------------------------------------
RangeMode == "i" \in opts /\ "e" \notin opts
ArgMode == "e" \in opts /\ "i" \notin opts
StreamMode == "e" \notin opts /\ "i" \notin opts

Started == pc \notin {"getopt", "source", "error"}
Shuffled == pc \in {"open", "print", "done"}

\* L and H as written in the -i argument.
RangeDash == StrChr(opt_i_str, "-")
RangeL == ParseNum(SubSeq(opt_i_str, 1, RangeDash - 1), ULLONG_MAX)
RangeH == ParseNum(SubSeq(opt_i_str, RangeDash + 1, Len(opt_i_str)), ULLONG_MAX)

\* NUM as written in the -n argument.
CountN == ParseNum(opt_n_str, UINT_MAX)

\* The length of the source collection and the record of source position h.
SourceLen == IF RangeMode THEN RangeH - RangeL + 1 ELSE Len(text)
Terminator == IF "z" \in opts THEN NUL ELSE NL
SourceRecord(h) ==
    IF RangeMode THEN Append(Decimal(RangeL + h), Terminator)
    ELSE Append(text[h + 1], Terminator)
Wanted == IF "n" \in opts THEN Min(CountN, SourceLen) ELSE SourceLen

Identity(n) == [k \in 1 .. n |-> k - 1]
Occurrences(seq, x) == Cardinality({k \in 1 .. Len(seq) : seq[k] = x})

\* C1: a run that succeeds emits exactly min(NUM, numlines) records
\* (numlines without -n); they are the records of that many pairwise
\* distinct positions of the source collection, and when all of it is
\* emitted the output is the input as a multiset.
C1_SampleOfSource ==
    pc = "done" =>
        LET base == SourceLen - Wanted
        IN  /\ Len(out) = Wanted
            /\ Len(lines) = SourceLen
            /\ ArgMode => text = argv
            /\ \A j \in 1 .. Wanted :
                 /\ lines[base + j] \in 0 .. SourceLen - 1
                 /\ out[j] = SourceRecord(lines[base + j])
            /\ \A j1, j2 \in 1 .. Wanted :
                 j1 # j2 => lines[base + j1] # lines[base + j2]
            /\ Wanted = SourceLen =>
                 \A h \in 0 .. SourceLen - 1 :
                   Occurrences(out, SourceRecord(h))
                     = Cardinality({g \in 0 .. SourceLen - 1 :
                                      SourceRecord(g) = SourceRecord(h)})

\* A stream of four lines, two of them equal, cut to two by -n 2 and
\* emitted in an order that is not the input's.
C1_Witness ==
    /\ pc = "done"
    /\ StreamMode
    /\ "n" \in opts
    /\ Len(text) = 4
    /\ text[1] = text[2]
    /\ Len(out) = 2
    /\ lines[4] = 0

\* C9: in the shuffle loop 0 <= outlines <= numlines (the active length),
\* so r %= numlines never divides by zero, and r and numlines-1 index the
\* array; also for an empty collection and for -n 0.
C9_LoopBounds ==
    /\ pc = "shuffle" =>
         /\ 0 <= sh_outlines
         /\ sh_outlines <= sh_numlines
         /\ sh_numlines <= numlines
         /\ numlines = Len(lines)
         /\ LoopContinues(sh_outlines) => sh_numlines # 0
    /\ Started /\ pc # "count" => outlines <= numlines
    /\ err # "division by zero"
    /\ \A k \in 1 .. Len(draws) :
         /\ 0 <= draws[k] /\ draws[k] <= numlines - k
         /\ 0 <= numlines - k /\ numlines - k < numlines

\* An empty collection with -n 2: the loop is entered with nothing to do.
C9_Witness ==
    /\ pc = "shuffle"
    /\ numlines = 0
    /\ "n" \in opts
    /\ CountN = 2
    /\ sh_outlines = 0

ShuffleAction == draws' # draws
SameBag(a, b) ==
    /\ Len(a) = Len(b)
    /\ \A k \in 1 .. Len(a) : Occurrences(a, a[k]) = Occurrences(b, a[k])

\* What one iteration does to the array: slots r and n-1 exchanged, the
\* others kept.
IterationFrame ==
    LET n == sh_numlines
        r == draws'[Len(draws')]
    IN  /\ Len(draws') = Len(draws) + 1
        /\ sh_numlines' = n - 1
        /\ lines'[n] = lines[r + 1]
        /\ lines'[r + 1] = lines[n]
        /\ \A k \in 1 .. Len(lines) :
             k \notin {r + 1, n} => lines'[k] = lines[k]

\* What every step from the shuffle on keeps: the handles, and the slots at
\* or above the active length.
ArrayFrame ==
    /\ SameBag(lines, lines')
    /\ \A k \in 1 .. Len(lines) : k > sh_numlines => lines'[k] = lines[k]

\* C7: shuffle_lines makes exactly outlines iterations (no draw when
\* outlines is 0); after k of them the active length is numlines - k; an
\* iteration changes only the slots r and n-1; a slot at or above the
\* active length is never written again; the array keeps its length and
\* its handles.
C7_ShuffleFrame ==
    /\ [](pc = "shuffle" =>
            /\ sh_numlines = numlines - Len(draws)
            /\ sh_outlines = outlines - Len(draws))
    /\ [](Shuffled => Len(draws) = outlines /\ (outlines = 0 => nrand = 0))
    /\ [][ShuffleAction => IterationFrame]_vars
    /\ [][(pc \in {"shuffle", "open", "print"}) => ArrayFrame]_vars

\* Two iterations on four lines, the second moving a handle.
C7_Witness ==
    /\ pc = "shuffle"
    /\ numlines = 4
    /\ outlines = 2
    /\ draws = <<1, 0>>
    /\ sh_outlines = 0
    /\ lines = <<2, 3, 0, 1>>

Window(l, n, k) == SubSeq(l, n - k + 1, n)

\* The array after the iterations whose indices are rs, from active length n.
RECURSIVE ShuffleAll(_, _, _)
ShuffleAll(l, n, rs) ==
    IF rs = <<>> THEN l
    ELSE ShuffleAll(Swap(l, n - 1, Head(rs)), n - 1, Tail(rs))

\* The draw sequences: r_1 in [0, n), r_2 in [0, n-1), ..., k of them.
RECURSIVE DrawSeqs(_, _)
DrawSeqs(n, k) ==
    IF k = 0 THEN {<<>>}
    ELSE {<<r>> \o t : r \in 0 .. n - 1, t \in DrawSeqs(n - 1, k - 1)}

\* The ordered selections of k distinct source positions out of n.
RECURSIVE Selections(_, _)
Selections(S, k) ==
    IF k = 0 THEN {<<>>}
    ELSE UNION {{<<x>> \o t : t \in Selections(S \ {x}, k - 1)} : x \in S}

OrderedSelections(n, k) == Selections(0 .. n - 1, k)

WindowOf(n, k, rs) == Window(ShuffleAll(Identity(n), n, rs), n, k)

\* C6: when shuffle_lines returns, the trailing window is the value, at the
\* run's draws, of a map from draw sequences to windows that is one-to-one
\* and onto the ordered selections of outlines distinct source positions.
C6_WindowBijection ==
    pc = "open" =>
        LET n == numlines
            k == outlines
        IN  /\ draws \in DrawSeqs(n, k)
            /\ Window(lines, n, k) = WindowOf(n, k, draws)
            /\ {WindowOf(n, k, rs) : rs \in DrawSeqs(n, k)}
                 = OrderedSelections(n, k)
            /\ \A rs \in DrawSeqs(n, k) :
                 WindowOf(n, k, rs) = Window(lines, n, k) => rs = draws

\* Two of the five values of 5-9, drawn with indices 0 and 2.
C6_Witness ==
    /\ pc = "open"
    /\ RangeMode
    /\ numlines = 5
    /\ outlines = 2
    /\ draws = <<0, 2>>
    /\ Window(lines, 5, 2) = <<2, 0>>

\* The integer a range record shows: the record without its terminator.
RecordValue(rec) == ParseNum(SubSeq(rec, 1, Len(rec) - 1), ULLONG_MAX)
OutValues == {RecordValue(out[j]) : j \in 1 .. Len(out)}

\* C2: an accepted range L-H makes the handles 0 .. H-L; every emitted
\* value is L plus the handle of its slot, so the values are pairwise
\* distinct integers of [L, H], none wrapped; without -n, or with NUM at
\* least H-L+1, every integer of [L, H] is emitted exactly once.
C2_RangeValues ==
    RangeMode =>
        /\ pc \in {"count", "shuffle", "open", "print", "done"} =>
             /\ RangeL <= RangeH
             /\ lo = RangeL
             /\ numlines = RangeH - RangeL + 1
             /\ Len(lines) = numlines
        /\ pc = "count" => lines = Identity(RangeH - RangeL + 1)
        /\ \A j \in 1 .. Len(out) :
             LET h == lines[numlines - outlines + j]
             IN  /\ out[j] = Append(Decimal(RangeL + h), Terminator)
                 /\ RecordValue(out[j]) = RangeL + h
                 /\ RangeL <= RecordValue(out[j])
                 /\ RecordValue(out[j]) <= RangeH
        /\ Cardinality(OutValues) = Len(out)
        /\ (pc = "done" /\ ("n" \notin opts \/ CountN >= RangeH - RangeL + 1)) =>
             /\ OutValues = RangeL .. RangeH
             /\ Len(out) = RangeH - RangeL + 1

\* -i 5-9 emitted whole, 9 first.
C2_Witness ==
    /\ pc = "done"
    /\ opt_i_str = RangeText(5, 9)
    /\ Len(out) = 5
    /\ out[1] = <<"9", NL>>
    /\ OutValues = 5 .. 9

\* The size condition as the specification words it.
ClaimedOverflow(p, l, h) ==
    IF SizeofSizeT(p) > SizeofUnsigned
    THEN h - l >= UINT_MAX
    ELSE h - l >= UINT_MAX \div SizeofPtr(p)

RangeParsed == RangeDash # 0 /\ RangeL # -1 /\ RangeH # -1
RangeRefused ==
    \/ RangeDash = 0
    \/ RangeParsed /\ (RangeH < RangeL \/ ClaimedOverflow(platform, RangeL, RangeH))

\* What C3 says of a run of the -i branch that has left it.
RangeVerdict ==
    /\ (err = "bad range") <=> RangeRefused
    /\ err = "bad range" => pc = "error" /\ lines = <<>> /\ out = <<>>
    /\ (RangeParsed /\ ~RangeRefused) =>
         /\ pc = "count"
         /\ err = "none"
         /\ numlines = RangeH - RangeL + 1
         /\ numlines <= UINT_MAX
         /\ Len(lines) = RangeH - RangeL + 1
         /\ SizeofSizeT(platform) = SizeofUnsigned =>
              numlines * SizeofPtr(platform) <= UINT_MAX

RangeDecided == RangeMode /\ pc \notin {"getopt", "source"}

\* C3 as stated: the -i branch dies with "bad range", building nothing,
\* exactly when the argument has no '-', or H < L, or H-L+1 is too big for
\* the build; every other parsed pair is accepted, and then numlines is
\* H-L+1 untruncated.
C3_AsStated == RangeDecided => RangeVerdict

\* C3, amended: that holds when no operand follows the options (on a 32-bit
\* size_t the byte size of the array fits too); with an operand the run
\* dies with the usage message, whatever the range.
C3_BadRange ==
    RangeDecided =>
        IF argv = <<>>
        THEN RangeVerdict
        ELSE pc = "error" /\ err = "usage" /\ lines = <<>> /\ out = <<>>

\* On the 64-bit build, H-L = UINT_MAX: one element too many.
C3_Witness ==
    /\ pc = "error"
    /\ err = "bad range"
    /\ platform = "linux64"
    /\ argv = <<>>
    /\ RangeParsed
    /\ RangeH - RangeL = UINT_MAX

\* The invalid command lines and environments, by kind.
ConflictError == "e" \in opts /\ "i" \in opts
RangeError == RangeMode /\ (argv # <<>> \/ ~RangeParsed \/ RangeRefused)
OperandError == StreamMode /\ Len(argv) > 1
InputOpenError == StreamMode /\ Len(argv) = 1 /\ ~InputOpens

\* C4: an invalid run ends, where the error is detected, in an error state
\* with a non-zero status and nothing emitted; range, mode-conflict and
\* operand errors are found before the shuffle draws or swaps.
C4_ErrorsAreTerminal ==
    /\ ConflictError => pc \in {"getopt", "error"}
    /\ (RangeError \/ OperandError \/ InputOpenError) =>
         pc \in {"getopt", "source", "error"}
    /\ pc = "error" =>
         /\ exit_status # 0
         /\ err # "none"
         /\ out = <<>>
         /\ ~ENABLED Next
    /\ (pc = "error" /\ err \in {"usage", "bad range"}) =>
         /\ draws = <<>>
         /\ nrand = 0
         /\ lines \in {<<>>, Identity(Len(lines))}
    /\ pc = "done" => exit_status = 0 /\ err = "none"
    /\ pc \notin {"done", "error"} => exit_status = -1 /\ ENABLED Next

\* -i 9-5.
C4_Witness ==
    /\ pc = "error"
    /\ err = "bad range"
    /\ opt_i_str = RangeText(9, 5)
    /\ exit_status = 1
    /\ out = <<>>

HasByte(rec, c) == \E k \in 1 .. Len(rec) : rec[k] = c
Body(rec) == SubSeq(rec, 1, Len(rec) - 1)

\* C5 as stated: with -z no newline in the output and every record ends in
\* NUL; without -z every record ends in a newline.
C5_AsStated ==
    \A j \in 1 .. Len(out) :
        /\ out[j] # <<>>
        /\ out[j][Len(out[j])] = Terminator
        /\ "z" \in opts => ~HasByte(out[j], NL)

\* C5, amended: every record ends in the terminator (NUL with -z, newline
\* without) and holds no NUL before it; with -z the output holds no newline
\* in stream and range modes, and in -e mode only the newlines of the
\* argument the record renders.
C5_Terminators ==
    \A j \in 1 .. Len(out) :
        /\ out[j] # <<>>
        /\ out[j][Len(out[j])] = Terminator
        /\ ~HasByte(Body(out[j]), NUL)
        /\ ("z" \in opts /\ ~ArgMode) => ~HasByte(out[j], NL)
        /\ ArgMode => Body(out[j]) = argv[lines[numlines - outlines + j] + 1]

\* shuf -z -e with an argument that holds a newline.
C5_Witness ==
    /\ pc = "done"
    /\ "z" \in opts
    /\ ArgMode
    /\ \E j \in 1 .. Len(out) : out[j] = <<"a", NL, NUL>>

\* The values the combined draw ranges over, and the
\* number of pairs of draws that give each of them.
Space(p) == Pow2(Min(UintBits, ShiftBits + RandBits(p)))
PairsPerValue(p) == ((RAND_MAX(p) + 1) * (RAND_MAX(p) + 1)) \div Space(p)

PairCount(p, n, r) ==
    Cardinality({d \in (0 .. RAND_MAX(p)) \X (0 .. RAND_MAX(p)) :
                   RandIndex(p, n, d[1], d[2]) = r})

\* The pairs a plain reduction modulo n of a uniform value gives index r.
ModuloCount(p, n, r) ==
    IF r < Space(p)
    THEN PairsPerValue(p) * (((Space(p) - 1 - r) \div n) + 1)
    ELSE 0

\* C8: for n > RAND_MAX two draws are made and the index is their
\* combination modulo n: the number of pairs of draws that give index r is
\* that of a reduction modulo n of a uniform value, so it never grows with r
\* and, when n does not divide the number of combined values, index 0 has
\* more pairs than index n-1; for n <= RAND_MAX one draw is made and the
\* index is that draw modulo n.
C8_ModuloBias ==
    LET p == platform
        n == numlines
    IN  IF n > RAND_MAX(p)
        THEN /\ draws = <<>> =>
                  /\ \A r \in 0 .. n - 1 : PairCount(p, n, r) = ModuloCount(p, n, r)
                  /\ \A r \in 1 .. n - 1 :
                       ModuloCount(p, n, r - 1) >= ModuloCount(p, n, r)
                  /\ Space(p) % n # 0 => PairCount(p, n, 0) > PairCount(p, n, n - 1)
             /\ draws # <<>> =>
                  /\ nrand = 2
                  /\ \E d1, d2 \in 0 .. RAND_MAX(p) :
                       draws[1] = RandIndex(p, n, d1, d2)
        ELSE /\ draws = <<>> =>
                  \A d1, d2 \in 0 .. RAND_MAX(p) :
                     RandIndex(p, n, d1, d2) = d1 % n
             /\ draws # <<>> =>
                  /\ nrand = 1
                  /\ \E d1 \in 0 .. RAND_MAX(p) : draws[1] = d1 % n

\* A 15-bit rand() with 7 lines: index 1 drawn, which 3 pairs give, while
\* index 6 has 2.
C8_Witness ==
    /\ platform = "mingw32"
    /\ numlines = 7
    /\ draws = <<1>>
    /\ nrand = 2
    /\ PairCount("mingw32", 7, 1) > PairCount("mingw32", 7, 6)

\* The environment the run started in: nothing before the output is
\* opened changes a file.
StartEnvs == {e \in Envs : e.stdin = stdin}
OutputOpened == out_fd # Stdout
FileInput == StreamMode /\ Len(argv) = 1 /\ ~InputIsStdin

\* C10 as stated: the input has been read to its end and closed when the
\* -o file is opened.
C10_AsStated ==
    (OutputOpened /\ StreamMode) => fp = "closed"

\* C10, amended: the -o file is opened (created or truncated) only after the
\* input has been read to its end (and closed, when it is a named file:
\* standard input is left open) and the shuffle has completed, and before
\* the first record is written; so a stream read from the -o file itself is
\* the file's original contents, and no error truncates the -o file.
C10_OpenAfterRead ==
    /\ OutputOpened =>
         /\ "o" \in opts
         /\ pc \in {"print", "done"}
         /\ Len(draws) = outlines
         /\ sh_outlines = 0
         /\ StreamMode => fp = (IF InputIsStdin THEN "stdin_eof" ELSE "closed")
    /\ (out # <<>> /\ "o" \in opts) => OutputOpened
    /\ pc \notin {"print", "done"} => \E e \in StartEnvs : fs = e.fs
    /\ (pc \in {"print", "done"} /\ "o" \in opts) =>
         \E e \in StartEnvs :
            \A f \in FileNames : f # opt_o_str => fs[f] = e.fs[f]
    /\ (pc = "print" /\ "o" \in opts) => fs[opt_o_str] = File(<<>>)
    /\ (FileInput /\ Started) =>
         \E e \in StartEnvs : text = FGetLines(e.fs[argv[1]].data)

\* shuf -o a a: the four lines of a are written although a was truncated.
C10_Witness ==
    /\ pc = "print"
    /\ FileInput
    /\ "o" \in opts
    /\ opt_o_str = argv[1]
    /\ fs[opt_o_str] = File(<<>>)
    /\ Len(text) = 4
    /\ Len(out) = 4

====
